---- MODULE Spec2Model ----
(***************************************************************************)
(* EVA event queue (eva/eventqueue.py): the in-memory ordered mapping of   *)
(* EventQueueItem objects and its write-through mirror in ZooKeeper.       *)
(*                                                                         *)
(* Every public method is one action.  A method that talks to ZooKeeper    *)
(* first computes the sequence of store operations it issues, in program   *)
(* order; the environment picks a fault (none, or operation number `at'    *)
(* failing with an exception kind), the operations before the fault are    *)
(* applied and the exception leaves the method.  The state after a fault   *)
(* at operation k is the intermediate state of the method before its k-th  *)
(* store operation, so the intermediate states are reachable states.       *)
(***************************************************************************)
EXTENDS Integers, Sequences, FiniteSets, TLC

VARIABLES
    debug,      \* Python's __debug__: TRUE unless run with -O (assert statements are executed)
    items,      \* EventQueue.items: OrderedDict event id -> EventQueueItem
    zk,         \* the ZooKeeper tree below EVA_BASE_PATH: path -> node data
    last,       \* the most recent call: method, argument, outcome, store operations attempted
    prev,       \* history: the call before it: method, argument, outcome
    removed,    \* history: event ids that remove_item has deleted from EventQueue.items
    firstSeen,  \* history: event ids in the order of their first insertion into EventQueue.items
    firstJobs,  \* history: per item, job ids in the order of their first insertion into its jobs
    regular,    \* history: every call so far was a method of the queue or of an item and returned
    calls,      \* number of calls made so far
    env         \* the environment: the events that arrive, whether the store may fail, and
                \* the number of calls the control loop makes

vars == <<debug, items, zk, last, prev, removed, firstSeen, firstJobs, regular, calls, env>>

(***************************************************************************)
(* Bounds and input sets.                                                  *)
(***************************************************************************)
MaxCalls == 4

\* calls made when the store never fails
MaxDeepCalls == 6

EventIds == {"E1", "E2"}
JobIds   == {"J1", "J2"}
Adapters == {"A1", "A2"}

\* eva.job.ALL_STATUSES and the predicates of eva.job.Job
ALL_STATUSES == <<"queued", "running", "finished", "failed">>

Statuses == {ALL_STATUSES[i] : i \in 1..Len(ALL_STATUSES)}

JobStarted(job) == job.status = "running"

JobFinished(job) == job.status = "finished"

JobFailed(job) == job.status = "failed"

\* eva.event.Event: an id and the raw message it was built from
MessageOf(id) == IF id = "E1" THEN "m1" ELSE "m2"

Events == {[id |-> id, message |-> MessageOf(id)] : id \in EventIds}

\* eva.job.Job: id, status, adapter (its config_id)
Jobs == [id : JobIds, status : Statuses, adapter : Adapters]

\* a job as its adapter hands it over: not yet started
NewJobs == {job \in Jobs : job.status = "queued"}

(***************************************************************************)
(* collections.OrderedDict as a sequence of [key, val] entries.            *)
(***************************************************************************)
ODKeys(od) == [i \in 1..Len(od) |-> od[i].key]

ODHas(od, k) == \E i \in 1..Len(od) : od[i].key = k

ODGet(od, k) == od[CHOOSE i \in 1..Len(od) : od[i].key = k].val

\* a slip: od[k] = v written as delete-then-insert, which moves an existing key to the end
ODSetMoveToEnd(od, k, v) ==
    Append(SelectSeq(od, LAMBDA en : en.key # k), [key |-> k, val |-> v])

\* od[k] = v: an existing key keeps its position, a new key goes to the end
ODSet(od, k, v) ==
    IF ODHas(od, k)
    THEN [i \in 1..Len(od) |-> IF od[i].key = k THEN [key |-> k, val |-> v] ELSE od[i]]
    ELSE Append(od, [key |-> k, val |-> v])

\* del od[k]
ODDel(od, k) == SelectSeq(od, LAMBDA en : en.key # k)

ODValues(od) == [i \in 1..Len(od) |-> od[i].val]

(***************************************************************************)
(* EventQueueItem                                                          *)
(***************************************************************************)
NewItem(event) == [event |-> event, jobs |-> <<>>]

item_id(item) == item.event.id

item_add_job(item, job) == [item EXCEPT !.jobs = ODSet(item.jobs, job.id, job)]

\* a slip: remove_job that empties the item's jobs
item_remove_job_all(item, job_id) == [item EXCEPT !.jobs = <<>>]

item_remove_job(item, job_id) == [item EXCEPT !.jobs = ODDel(item.jobs, job_id)]

item_empty(item) == Len(item.jobs) = 0

job_keys(item) == ODKeys(item.jobs)

\* EventQueueItem.serialize: the message, the job keys in order, and status and adapter by key
serialize(item) ==
    [message  |-> item.event.message,
     job_keys |-> job_keys(item),
     jobs     |-> [k \in {item.jobs[i].key : i \in 1..Len(item.jobs)} |->
                     [status  |-> ODGet(item.jobs, k).status,
                      adapter |-> ODGet(item.jobs, k).adapter]]]

item_keys(its) == ODKeys(its)

(***************************************************************************)
(* The ZooKeeper tree.  A path is a sequence of names below EVA_BASE_PATH; *)
(* zk maps every existing node to its data, a sequence of tokens (<<>> is  *)
(* the empty data of a node made by ensure_path).                          *)
(***************************************************************************)
zk_base_path == <<"events">>

ItemPath(id) == zk_base_path \o <<id>>

MessagePath(id) == ItemPath(id) \o <<"message">>

JobsPath(id) == ItemPath(id) \o <<"jobs">>

JobPath(id, key) == JobsPath(id) \o <<key>>

AdapterPath(id, key) == JobPath(id, key) \o <<"adapter">>

StatusPath(id, key) == JobPath(id, key) \o <<"status">>

IsPrefix(p, q) == Len(p) <= Len(q) /\ SubSeq(q, 1, Len(p)) = p

\* json.dumps of a string and of a list of strings, as tokens
DumpsStr(s) == <<"str", s>>

DumpsList(l) == <<"list">> \o l

\* the store operations of the narrow storage interface
EnsureOp(path) == [op |-> "ensure_path", path |-> path, data |-> <<>>]

SetOp(path, data) == [op |-> "store", path |-> path, data |-> data]

DeleteOp(path) == [op |-> "delete", path |-> path, data |-> <<>>]

Prefixes(path) == {SubSeq(path, 1, n) : n \in 1..Len(path)}

\* the effect of one successful store operation on the tree
ApplyOp(tree, o) ==
    CASE o.op = "ensure_path" ->
            [p \in DOMAIN tree \cup Prefixes(o.path) |->
                IF p \in DOMAIN tree THEN tree[p] ELSE <<>>]
      [] o.op = "store" ->
            [p \in DOMAIN tree \cup {o.path} |->
                IF p = o.path THEN o.data ELSE tree[p]]
      [] o.op = "delete" ->
            [p \in {q \in DOMAIN tree : ~IsPrefix(o.path, q)} |-> tree[p]]

RECURSIVE ApplyOps(_, _, _)
ApplyOps(tree, ops, n) ==
    IF n = 0 THEN tree ELSE ApplyOp(ApplyOps(tree, ops, n - 1), ops[n])

(***************************************************************************)
(* Faults: which store operation of a call fails, and how.                 *)
(***************************************************************************)
NoFault == [at |-> 0, kind |-> "none"]

StoreErrors == {"ZooKeeperDataTooLargeException", "ZooKeeperError"}

FaultKinds(o) ==
    IF o.op = "store" THEN StoreErrors ELSE {"ZooKeeperError"}

Faults(ops) ==
    {NoFault} \cup
    UNION {{[at |-> i, kind |-> k] : k \in FaultKinds(ops[i])} : i \in 1..Len(ops)}

\* run the operations in order until the fault: the tree, the outcome, the operations attempted
RunOps(tree, ops, fault) ==
    IF fault.at = 0 \/ fault.at > Len(ops)
    THEN [zk |-> ApplyOps(tree, ops, Len(ops)), result |-> "ok", attempted |-> ops]
    ELSE [zk |-> ApplyOps(tree, ops, fault.at - 1), result |-> fault.kind,
          attempted |-> SubSeq(ops, 1, fault.at)]

(***************************************************************************)
(* EventQueue: the store operations of each method                         *)
(***************************************************************************)
\* a slip: store_list that first makes sure of a node for each item of the mapping
store_list_ops_ensuring(its) ==
    [i \in 1..Len(its) |-> EnsureOp(ItemPath(its[i].key))]
    \o <<SetOp(zk_base_path, DumpsList(item_keys(its)))>>

\* a slip: the index written newest first
store_list_ops_reversed(its) ==
    LET keys == item_keys(its)
    IN  <<SetOp(zk_base_path, DumpsList([i \in 1..Len(keys) |-> keys[Len(keys) + 1 - i]]))>>

store_list_ops(its) == <<SetOp(zk_base_path, DumpsList(item_keys(its)))>>

\* a slip: each job's adapter written to its status node and its status to its adapter node
RECURSIVE store_jobs_ops_swapped(_, _)
store_jobs_ops_swapped(id, jobs) ==
    IF jobs = <<>> THEN <<>>
    ELSE <<EnsureOp(JobPath(id, Head(jobs).key)),
           SetOp(AdapterPath(id, Head(jobs).key), DumpsStr(Head(jobs).val.status)),
           SetOp(StatusPath(id, Head(jobs).key), DumpsStr(Head(jobs).val.adapter))>>
         \o store_jobs_ops_swapped(id, Tail(jobs))

RECURSIVE store_jobs_ops(_, _)
store_jobs_ops(id, jobs) ==
    IF jobs = <<>> THEN <<>>
    ELSE <<EnsureOp(JobPath(id, Head(jobs).key)),
           SetOp(AdapterPath(id, Head(jobs).key), DumpsStr(Head(jobs).val.adapter)),
           SetOp(StatusPath(id, Head(jobs).key), DumpsStr(Head(jobs).val.status))>>
         \o store_jobs_ops(id, Tail(jobs))

\* a slip: store_item without its closing store_list()
store_item_ops_without_list(its, item) ==
    <<EnsureOp(ItemPath(item_id(item))),
      SetOp(MessagePath(item_id(item)), DumpsStr(item.event.message)),
      SetOp(JobsPath(item_id(item)), DumpsList(job_keys(item)))>>
    \o store_jobs_ops(item_id(item), item.jobs)

store_item_ops(its, item) ==
    <<EnsureOp(ItemPath(item_id(item))),
      SetOp(MessagePath(item_id(item)), DumpsStr(item.event.message)),
      SetOp(JobsPath(item_id(item)), DumpsList(job_keys(item)))>>
    \o store_jobs_ops(item_id(item), item.jobs)
    \o store_list_ops(its)

delete_stored_item_ops(its, id) ==
    <<DeleteOp(ItemPath(id))>> \o store_list_ops(its)

(***************************************************************************)
(* EventQueue: the outcome of each method, as                              *)
(* [items, zk, result, attempted]                                          *)
(***************************************************************************)
Outcome(its, tree, result, attempted) ==
    [items |-> its, zk |-> tree, result |-> result, attempted |-> attempted]

WithItems(its, run) == Outcome(its, run.zk, run.result, run.attempted)

\* a slip: the job-key list extended with the item's keys instead of rewritten
store_item_appending(its, tree, item, fault) ==
    LET ops  == store_item_ops(its, item)
        path == JobsPath(item_id(item))
    IN  WithItems(its, RunOps(tree,
            [i \in 1..Len(ops) |->
                IF ops[i].op = "store" /\ ops[i].path = path /\ path \in DOMAIN tree
                THEN SetOp(path, tree[path] \o job_keys(item))
                ELSE ops[i]],
            fault))

\* a slip: store_item that catches the error of a store operation and goes on with the rest
store_item_swallowing(its, tree, item, fault) ==
    LET ops == store_item_ops(its, item)
        run == RunOps(tree, ops, fault)
    IN  IF run.result = "ok" THEN WithItems(its, run)
        ELSE Outcome(its,
                     ApplyOps(run.zk, SubSeq(ops, fault.at + 1, Len(ops)), Len(ops) - fault.at),
                     "ok", ops)

store_item(its, tree, item, fault) ==
    WithItems(its, RunOps(tree, store_item_ops(its, item), fault))

store_list(its, tree, fault) ==
    WithItems(its, RunOps(tree, store_list_ops(its), fault))

\* a slip: add_event without the duplicate check, so that items[id] is overwritten
add_event_overwrite(its, tree, event, fault) ==
    store_item(ODSet(its, event.id, NewItem(event)), tree, NewItem(event), fault)

\* a slip: add_event that takes the item out of the mapping again when the store fails
add_event_rollback(its, tree, event, fault) ==
    IF ODHas(its, event.id)
    THEN Outcome(its, tree, "DuplicateEventException", <<>>)
    ELSE LET out == store_item(ODSet(its, event.id, NewItem(event)), tree, NewItem(event), fault)
         IN  IF out.result = "ok" THEN out
             ELSE Outcome(its, out.zk, out.result, out.attempted)

add_event(its, tree, event, fault) ==
    IF ODHas(its, event.id)
    THEN Outcome(its, tree, "DuplicateEventException", <<>>)
    ELSE store_item(ODSet(its, event.id, NewItem(event)), tree, NewItem(event), fault)

delete_stored_item(dbg, its, tree, id, fault) ==
    IF dbg /\ ~ODHas(its, id)
    THEN Outcome(its, tree, "AssertionError", <<>>)
    ELSE WithItems(its, RunOps(tree, delete_stored_item_ops(its, id), fault))

\* a slip: remove_item that empties the whole mapping
remove_item_clear(dbg, its, tree, id, fault) ==
    IF ~ODHas(its, id)
    THEN Outcome(its, tree, IF dbg THEN "AssertionError" ELSE "KeyError", <<>>)
    ELSE delete_stored_item(dbg, <<>>, tree, id, fault)

\* a slip: remove_item that does not look whether the id is in the mapping
remove_item_quiet(dbg, its, tree, id, fault) ==
    delete_stored_item(dbg, ODDel(its, id), tree, id, fault)

remove_item(dbg, its, tree, id, fault) ==
    IF ~ODHas(its, id)
    THEN Outcome(its, tree, IF dbg THEN "AssertionError" ELSE "KeyError", <<>>)
    ELSE delete_stored_item(dbg, ODDel(its, id), tree, id, fault)

(***************************************************************************)
(* EventQueueItem.finished and the aggregate queries of EventQueue, as     *)
(* [result, value]                                                         *)
(***************************************************************************)
Returned(value) == [result |-> "ok", value |-> value]

Raised(exception) == [result |-> exception, value |-> "-"]

\* the loop of finished(): False at the first job that has not finished
RECURSIVE all_finished(_)
all_finished(jobs) ==
    IF jobs = <<>> THEN TRUE
    ELSE IF ~JobFinished(Head(jobs).val) THEN FALSE
    ELSE all_finished(Tail(jobs))

\* a slip: finished() without the check for zero jobs
finished_unguarded(item) == Returned(all_finished(item.jobs))

finished(item) ==
    IF Len(item.jobs) = 0 THEN Raised("RuntimeError")
    ELSE Returned(all_finished(item.jobs))

\* the inner loop of adapter_active_job_count over the jobs of one item
RECURSIVE active_jobs(_, _)
active_jobs(jobs, adapter) ==
    IF jobs = <<>> THEN 0
    ELSE (IF Head(jobs).val.adapter # adapter THEN 0
          ELSE IF ~JobStarted(Head(jobs).val) THEN 0
          ELSE 1) + active_jobs(Tail(jobs), adapter)

RECURSIVE active_in_items(_, _)
active_in_items(its, adapter) ==
    IF its = <<>> THEN 0
    ELSE active_jobs(Head(its).val.jobs, adapter) + active_in_items(Tail(its), adapter)

\* the assert statement names `event', which is bound nowhere: NameError when it is executed
adapter_active_job_count(dbg, its, adapter) ==
    IF dbg THEN Raised("NameError")
    ELSE Returned(active_in_items(its, adapter))

\* status_map[job.status] += 1 over the jobs of one item
RECURSIVE count_jobs(_, _)
count_jobs(status_map, jobs) ==
    IF jobs = <<>> THEN status_map
    ELSE count_jobs([status_map EXCEPT ![Head(jobs).val.status] = @ + 1], Tail(jobs))

RECURSIVE count_items(_, _)
count_items(status_map, its) ==
    IF its = <<>> THEN status_map
    ELSE count_items(count_jobs(status_map, Head(its).val.jobs), Tail(its))

\* a slip: a map that holds only the statuses met, not every status zero-filled
RECURSIVE count_met(_)
count_met(jobs) ==
    IF jobs = <<>> THEN <<>>
    ELSE LET rest == count_met(Tail(jobs))
             st   == Head(jobs).val.status
         IN  [x \in DOMAIN rest \cup {st} |->
                 (IF x \in DOMAIN rest THEN rest[x] ELSE 0) + (IF x = st THEN 1 ELSE 0)]

RECURSIVE all_jobs(_)
all_jobs(its) == IF its = <<>> THEN <<>> ELSE Head(its).val.jobs \o all_jobs(Tail(its))

status_count_sparse(its) == Returned(count_met(all_jobs(its)))

\* dict(zip(ALL_STATUSES, [0] * len(ALL_STATUSES))), then the two loops
status_count(its) ==
    Returned(count_items([s \in Statuses |-> 0], its))

(***************************************************************************)
(* State machine                                                           *)
(***************************************************************************)
\* the record of a call: method, event id, job id or adapter, exception or "ok", return value,
\* the fault the store injected, the store operations the call attempted
CallRecord(op, id, key, result, value, fault, attempted) ==
    [op |-> op, id |-> id, key |-> key, result |-> result, value |-> value,
     fault |-> fault, attempted |-> attempted]

NoCall == CallRecord("init", "-", "-", "ok", "-", NoFault, <<>>)

\* what is kept of a call once the next one is made
Brief(call) == [op |-> call.op, id |-> call.id, result |-> call.result]

Range(s) == {s[i] : i \in 1..Len(s)}

\* the keys of new that old does not hold, in the order of new
NewKeys(old, new) == SelectSeq(new, LAMBDA k : k \notin Range(old))

FirstJobsAfter(its2) ==
    [e \in EventIds |->
        IF ~ODHas(its2, e) THEN <<>>
        ELSE LET keys == job_keys(ODGet(its2, e))
                 base == IF ODHas(items, e) THEN firstJobs[e] ELSE <<>>
             IN  base \o NewKeys(base, keys)]

\* the state after a call: the method's outcome, the record of the call, the histories
Commit(op, id, key, out, fault) ==
    /\ items' = out.items
    /\ zk' = out.zk
    /\ last' = CallRecord(op, id, key, out.result, "-", fault, out.attempted)
    /\ prev' = Brief(last)
    /\ regular' = (regular /\ out.result = "ok" /\ op # "set_status")
    /\ removed' = removed \cup (Range(item_keys(items)) \ Range(item_keys(out.items)))
    /\ firstSeen' = firstSeen \o NewKeys(firstSeen, item_keys(out.items))
    /\ firstJobs' = FirstJobsAfter(out.items)
    /\ calls' = calls + 1
    /\ debug' = debug
    /\ env' = env

\* the faults the environment may inject into a sequence of store operations
FaultsIn(ops) == IF env.faults THEN Faults(ops) ELSE {NoFault}

\* EventQueue.init: an empty mapping, and ensure_path(zk_base_path)
Init ==
    /\ debug \in BOOLEAN
    /\ items = <<>>
    /\ zk = ApplyOp(<<>>, EnsureOp(zk_base_path))
    /\ last = NoCall
    /\ prev = Brief(NoCall)
    /\ removed = {}
    /\ firstSeen = <<>>
    /\ firstJobs = [e \in EventIds |-> <<>>]
    /\ regular = TRUE
    /\ calls = 0
    /\ env = [events |-> EventIds, faults |-> TRUE, budget |-> MaxCalls]

\* the same start, with a store that never fails and a longer run
InitDeep ==
    /\ debug \in BOOLEAN
    /\ items = <<>>
    /\ zk = ApplyOp(<<>>, EnsureOp(zk_base_path))
    /\ last = NoCall
    /\ prev = Brief(NoCall)
    /\ removed = {}
    /\ firstSeen = <<>>
    /\ firstJobs = [e \in EventIds |-> <<>>]
    /\ regular = TRUE
    /\ calls = 0
    /\ env = [events |-> EventIds, faults |-> FALSE, budget |-> MaxDeepCalls]

AddEvent ==
    /\ calls < env.budget
    /\ \E event \in {ev \in Events : ev.id \in env.events} :
         \E fault \in (IF ODHas(items, event.id) THEN {NoFault}
                       ELSE FaultsIn(store_item_ops(ODSet(items, event.id, NewItem(event)),
                                                    NewItem(event)))) :
            Commit("add_event", event.id, "-", add_event(items, zk, event, fault), fault)

\* store_item is called with an item of the queue
StoreItem ==
    /\ calls < env.budget
    /\ \E i \in 1..Len(items) :
         \E fault \in FaultsIn(store_item_ops(items, items[i].val)) :
            Commit("store_item", items[i].key, "-",
                   store_item(items, zk, items[i].val, fault), fault)

StoreList ==
    /\ calls < env.budget
    /\ \E fault \in FaultsIn(store_list_ops(items)) :
         Commit("store_list", "-", "-", store_list(items, zk, fault), fault)

RemoveItem ==
    /\ calls < env.budget
    /\ \E id \in env.events :
         \E fault \in (IF ODHas(items, id) /\ ~debug
                       THEN FaultsIn(delete_stored_item_ops(ODDel(items, id), id))
                       ELSE {NoFault}) :
            Commit("remove_item", id, "-", remove_item(debug, items, zk, id, fault), fault)

\* EventQueueItem.add_job on an item of the queue: memory only
AddJob ==
    /\ calls < env.budget
    /\ \E i \in 1..Len(items), job \in NewJobs :
         Commit("add_job", items[i].key, job.id,
                Outcome(ODSet(items, items[i].key, item_add_job(items[i].val, job)),
                        zk, "ok", <<>>),
                NoFault)

\* EventQueueItem.remove_job on an item of the queue: KeyError when the key is absent
RemoveJob ==
    /\ calls < env.budget
    /\ \E i \in 1..Len(items), job_id \in JobIds :
         Commit("remove_job", items[i].key, job_id,
                IF ODHas(items[i].val.jobs, job_id)
                THEN Outcome(ODSet(items, items[i].key, item_remove_job(items[i].val, job_id)),
                             zk, "ok", <<>>)
                ELSE Outcome(items, zk, "KeyError", <<>>),
                NoFault)

\* the execution pipeline sets the status of a job object held by an item
SetStatus ==
    /\ calls < env.budget
    /\ \E i \in 1..Len(items) :
         \E j \in 1..Len(items[i].val.jobs), s \in Statuses :
            /\ items[i].val.jobs[j].val.status # s
            /\ Commit("set_status", items[i].key, items[i].val.jobs[j].key,
                      Outcome(ODSet(items, items[i].key,
                                    item_add_job(items[i].val,
                                                 [items[i].val.jobs[j].val EXCEPT !.status = s])),
                              zk, "ok", <<>>),
                      NoFault)

Next ==
    \/ AddEvent
    \/ StoreItem
    \/ StoreList
    \/ RemoveItem
    \/ AddJob
    \/ RemoveJob
    \/ SetStatus

Spec == Init /\ [][Next]_vars

DeepSpec == InitDeep /\ [][Next]_vars

(***************************************************************************)
(* The queries, applied to every content the queue can hold                *)
(***************************************************************************)
SeqsUpTo(S, n) == UNION {[1..k -> S] : k \in 0..n}

DistinctKeys(od) == \A i, j \in 1..Len(od) : od[i].key = od[j].key => i = j

\* the values of EventQueueItem.jobs: each job under its own id
JobDicts ==
    {od \in SeqsUpTo({[key |-> job.id, val |-> job] : job \in Jobs}, Cardinality(JobIds)) :
        DistinctKeys(od)}

\* the values of EventQueue.items: each item under its event's id
Queues ==
    {od \in SeqsUpTo({[key |-> ev.id, val |-> [event |-> ev, jobs |-> jobs]] :
                          ev \in Events, jobs \in JobDicts},
                     Cardinality(EventIds)) :
        DistinctKeys(od)}

\* the tree after store_item of every item of the queue
RECURSIVE StoredTree(_, _)
StoredTree(its, n) ==
    IF n = 0 THEN ApplyOp(<<>>, EnsureOp(zk_base_path))
    ELSE store_item(its, StoredTree(its, n - 1), its[n].val, NoFault).zk

InitQuery ==
    /\ debug \in BOOLEAN
    /\ items \in Queues
    /\ zk = StoredTree(items, Len(items))
    /\ last = NoCall
    /\ prev = Brief(NoCall)
    /\ removed = {}
    /\ firstSeen = item_keys(items)
    /\ firstJobs = [e \in EventIds |->
                      IF ODHas(items, e) THEN job_keys(ODGet(items, e)) ELSE <<>>]
    /\ regular = \A i \in 1..Len(items) :
                    \A j \in 1..Len(items[i].val.jobs) :
                        items[i].val.jobs[j].val.status = "queued"
    /\ calls = 0
    /\ env = [events |-> EventIds, faults |-> TRUE, budget |-> MaxCalls]

\* a query leaves the queue and the store as they are
Query(op, id, key, out) ==
    /\ last' = CallRecord(op, id, key, out.result, out.value, NoFault, <<>>)
    /\ UNCHANGED <<debug, items, zk, prev, removed, firstSeen, firstJobs, regular, calls, env>>

Finished ==
    \E i \in 1..Len(items) :
        Query("finished", items[i].key, "-", finished(items[i].val))

AdapterActiveJobCount ==
    \E adapter \in Adapters :
        Query("adapter_active_job_count", "-", adapter,
              adapter_active_job_count(debug, items, adapter))

StatusCount ==
    Query("status_count", "-", "-", status_count(items))

NextQuery ==
    \/ Finished
    \/ AdapterActiveJobCount
    \/ StatusCount

QuerySpec == InitQuery /\ [][NextQuery]_vars

(***************************************************************************)
(* Reading the persisted tree back                                         *)
(***************************************************************************)
IsList(data) == data # <<>> /\ Head(data) = "list"

\* the event ids the index node lists
IndexListed(tree) ==
    IF zk_base_path \in DOMAIN tree /\ IsList(tree[zk_base_path])
    THEN Range(Tail(tree[zk_base_path]))
    ELSE {}

\* the nodes at and below a path
Under(tree, path) == {q \in DOMAIN tree : IsPrefix(path, q)}

Holds(tree, path, data) == path \in DOMAIN tree /\ tree[path] = data

IndexCongruent(tree, its) == Holds(tree, zk_base_path, DumpsList(item_keys(its)))

\* the persisted job-key list, and the status and adapter of each listed job, equal the item's
ItemCongruent(tree, item) ==
    /\ Holds(tree, JobsPath(item_id(item)), DumpsList(job_keys(item)))
    /\ \A j \in 1..Len(item.jobs) :
         /\ Holds(tree, StatusPath(item_id(item), item.jobs[j].key),
                  DumpsStr(item.jobs[j].val.status))
         /\ Holds(tree, AdapterPath(item_id(item), item.jobs[j].key),
                  DumpsStr(item.jobs[j].val.adapter))

Congruent(tree, its) ==
    /\ IndexCongruent(tree, its)
    /\ \A i \in 1..Len(its) : ItemCongruent(tree, its[i].val)

(***************************************************************************)
(* C1  Removal cleans up fully.                                            *)
(***************************************************************************)
\* C1: when remove_item is called for an item of the queue and no store operation fails, the
\* call returns, the id is absent from item_keys(), the persisted index does not list it and
\* no node is left at or below /events/<id>.
C1_RemovalCleansUp ==
    [][(last'.op = "remove_item" /\ calls' = calls + 1 /\ ODHas(items, last'.id)
            /\ last'.fault = NoFault)
        => /\ last'.result = "ok"
           /\ ~ODHas(items', last'.id)
           /\ last'.id \notin IndexListed(zk')
           /\ Under(zk', ItemPath(last'.id)) = {}]_vars

(***************************************************************************)
(* C2  Congruence of memory and store.                                     *)
(***************************************************************************)
MutatingCalls == {"add_event", "add_job", "remove_job", "remove_item", "store_item"}

\* C2 as stated: after a sequence of add_event, add_job, remove_job, remove_item and store_item
\* calls that all returned, the persisted index equals item_keys() and every item's persisted
\* job-key list, job statuses and job adapters equal the in-memory ones.
C2_CongruentAfterEveryCall ==
    (regular /\ last.op \in MutatingCalls) => Congruent(zk, items)

\* C2 as amended: after add_event or store_item returns, the persisted index equals
\* item_keys() and the persisted job-key list, statuses and adapters of the item just stored
\* equal the in-memory ones (whatever happened before the call); after remove_item returns,
\* the persisted index equals item_keys().
C2_CongruentAfterStore ==
    /\ (last.op \in {"add_event", "store_item"} /\ last.result = "ok")
          => /\ IndexCongruent(zk, items)
             /\ ODHas(items, last.id)
             /\ ItemCongruent(zk, ODGet(items, last.id))
    /\ (last.op = "remove_item" /\ last.result = "ok") => IndexCongruent(zk, items)

\* a store_item that returned for an item whose job has left its initial status, after an
\* earlier call raised
C2_Witness ==
    /\ last.op = "store_item" /\ last.result = "ok" /\ ~regular
    /\ \E j \in 1..Len(ODGet(items, last.id).jobs) :
          ODGet(items, last.id).jobs[j].val.status # "queued"

(***************************************************************************)
(* C3  Store-first ordering.                                               *)
(***************************************************************************)
\* C3: in every reachable state every event id of the in-memory mapping is listed in the
\* persisted index and has its persisted message and job-key list.
C3_MemoryNeverAhead ==
    \A i \in 1..Len(items) :
        /\ items[i].key \in IndexListed(zk)
        /\ Holds(zk, MessagePath(items[i].key), DumpsStr(items[i].val.event.message))
        /\ JobsPath(items[i].key) \in DOMAIN zk

(***************************************************************************)
(* C4  Uniqueness.                                                         *)
(***************************************************************************)
\* C4: add_event with an id that is in the queue raises DuplicateEventException and leaves
\* the mapping (the existing item, its jobs, the key order) and the persisted tree as they were.
C4_DuplicateRejected ==
    [][(last'.op = "add_event" /\ calls' = calls + 1 /\ ODHas(items, last'.id))
        => /\ last'.result = "DuplicateEventException"
           /\ items' = items
           /\ zk' = zk]_vars

\* a duplicate add_event was rejected while the existing item held a job
C4_Witness ==
    /\ last.op = "add_event" /\ last.result = "DuplicateEventException"
    /\ ODHas(items, last.id)
    /\ ODGet(items, last.id).jobs # <<>>

(***************************************************************************)
(* C5  add_event failure policy.                                           *)
(***************************************************************************)
\* C5: when a store operation of add_event fails, add_event raises that error and the new
\* item, without jobs, is in the in-memory mapping and in item_keys().
C5_AddEventNotRolledBack ==
    (last.op = "add_event" /\ last.fault.at > 0)
        => /\ last.result = last.fault.kind
           /\ last.result \in StoreErrors
           /\ last.id \in Range(item_keys(items))
           /\ ODGet(items, last.id).jobs = <<>>

\* add_event failed on a store write that was too large, after the item's node was made
C5_Witness ==
    /\ last.op = "add_event"
    /\ last.result = "ZooKeeperDataTooLargeException"
    /\ last.fault.at > 1
    /\ ODHas(items, last.id)

(***************************************************************************)
(* C6  Per-event lifecycle.                                                *)
(***************************************************************************)
\* C6 as stated: an id that remove_item has taken out of the queue is never present again.
\* (Stated for the sequences of calls that all returned.)
C6_RemovedNeverPresentAgain ==
    regular => \A e \in removed : ~ODHas(items, e)

\* C6 as amended: an id becomes present only by an add_event of that id that does not raise
\* DuplicateEventException, and absent only by a remove_item of that id; add_event of a
\* present id is rejected and the id stays present; add_event of an absent id, removed
\* before or not, makes it present.
C6_Lifecycle ==
    [][\A e \in EventIds :
        /\ (~ODHas(items, e) /\ ODHas(items', e))
              => (last'.op = "add_event" /\ last'.id = e
                     /\ last'.result # "DuplicateEventException")
        /\ (ODHas(items, e) /\ ~ODHas(items', e))
              => (last'.op = "remove_item" /\ last'.id = e)
        /\ (last'.op = "add_event" /\ calls' = calls + 1 /\ last'.id = e)
              => /\ ODHas(items', e)
                 /\ ODHas(items, e) <=> (last'.result = "DuplicateEventException")]_vars

\* an id that was removed is present again, next to another id that stayed
C6_Witness ==
    /\ last.op = "add_event" /\ last.result = "ok"
    /\ last.id \in removed
    /\ ODHas(items, last.id)
    /\ Len(items) = 2

(***************************************************************************)
(* C9  Ordering of item_keys() and job_keys().                             *)
(***************************************************************************)
\* the entries of seq that are in set, in the order of seq
Restrict(seq, set) == SelectSeq(seq, LAMBDA k : k \in set)

\* C9 as stated: item_keys() lists the present event ids, and job_keys() the present job ids
\* of an item, in the order in which each id was first inserted.
\* (Stated for the sequences of calls that all returned.)
C9_FirstInsertionOrder ==
    regular =>
        /\ item_keys(items) = Restrict(firstSeen, Range(item_keys(items)))
        /\ \A i \in 1..Len(items) :
              job_keys(items[i].val)
                  = Restrict(firstJobs[items[i].key], Range(job_keys(items[i].val)))

\* the keys that stay keep their relative order, and the keys that come in follow them
KeepsOrder(old, new) ==
    new = Restrict(old, Range(new)) \o Restrict(new, Range(new) \ Range(old))

\* C9 as amended: every call leaves the ids that stay in item_keys(), and in job_keys() of an
\* item that stays, in their relative order, whether it removes or adds other keys or
\* overwrites a job under an existing key, and puts an id it inserts after them: the order is
\* that of each id's latest insertion, so an id removed and added again moves to the end.
C9_InsertionOrder ==
    [][/\ KeepsOrder(item_keys(items), item_keys(items'))
       /\ \A e \in Range(item_keys(items)) \cap Range(item_keys(items')) :
             KeepsOrder(job_keys(ODGet(items, e)), job_keys(ODGet(items', e)))]_vars

\* an event id that was removed and added again is listed after the id that stayed
C9_Witness ==
    /\ Len(items) = 2
    /\ item_keys(items) # firstSeen
    /\ Range(item_keys(items)) = Range(firstSeen)
    /\ last.op = "add_event" /\ last.result = "ok"

(***************************************************************************)
(* C7  adapter_active_job_count.                                           *)
(***************************************************************************)
\* the jobs of the queue, as (item position, job position)
JobPositions(its) ==
    {p \in (1..Len(its)) \X (1..Cardinality(JobIds)) : p[2] <= Len(its[p[1]].val.jobs)}

JobAt(its, p) == its[p[1]].val.jobs[p[2]].val

\* C7: adapter_active_job_count(adapter) returns, without raising, the number of jobs of all
\* items whose adapter is the given one and whose started() is true.
C7_ActiveJobCount ==
    last.op = "adapter_active_job_count"
        => /\ last.result = "ok"
           /\ last.value = Cardinality({p \in JobPositions(items) :
                                           /\ JobAt(items, p).adapter = last.key
                                           /\ JobStarted(JobAt(items, p))})

(***************************************************************************)
(* C8  status_count.                                                       *)
(***************************************************************************)
RECURSIVE SumOver(_, _)
SumOver(f, keys) ==
    IF keys = <<>> THEN 0 ELSE f[Head(keys)] + SumOver(f, Tail(keys))

\* C8: status_count() returns a mapping whose keys are exactly the known statuses, each value
\* the number of jobs of all items in that status, so that the values sum to the number of
\* jobs in the queue.
C8_StatusCount ==
    last.op = "status_count"
        => /\ last.result = "ok"
           /\ DOMAIN last.value = Statuses
           /\ \A s \in Statuses :
                 last.value[s] = Cardinality({p \in JobPositions(items) :
                                                 JobAt(items, p).status = s})
           /\ SumOver(last.value, ALL_STATUSES) = Cardinality(JobPositions(items))

\* status_count() of a queue of two items whose jobs are queued, queued, running and failed
C8_Witness ==
    /\ last.op = "status_count"
    /\ Len(items) = 2
    /\ last.value = [s \in Statuses |->
                        CASE s = "queued" -> 2 [] s = "running" -> 1
                          [] s = "failed" -> 1 [] OTHER -> 0]

(***************************************************************************)
(* C10  finished() and the item without jobs.                              *)
(***************************************************************************)
\* C10: finished() of an item without jobs raises RuntimeError and returns nothing; of an
\* item with jobs it returns TRUE when every job's finished() is true and FALSE otherwise.
C10_Finished ==
    last.op = "finished"
        => LET item == ODGet(items, last.id)
           IN  /\ item_empty(item) => (last.result = "RuntimeError" /\ last.value = "-")
               /\ ~item_empty(item)
                     => /\ last.result = "ok"
                        /\ last.value = (\A j \in 1..Len(item.jobs) :
                                            item.jobs[j].val.status = "finished")

\* finished() was called on an item without jobs, next to an item whose jobs have finished
C10_Witness ==
    /\ last.op = "finished"
    /\ last.result = "RuntimeError"
    /\ item_empty(ODGet(items, last.id))
    /\ \E i \in 1..Len(items) :
          /\ Len(items[i].val.jobs) = 2
          /\ \A j \in 1..2 : JobFinished(items[i].val.jobs[j].val)

(***************************************************************************)
(* C11  Completion monotonicity.                                           *)
(***************************************************************************)
\* finished() returns True
IsFinished(item) == finished(item).result = "ok" /\ finished(item).value = TRUE

\* the call just made was `op' on the item with id e
CallOn(op, e) == last'.op = op /\ last'.id = e

Follows(ops) == /\ last'.op = "store_item" /\ last'.id = last.id
                /\ last.op \in ops /\ last.result = "ok"

\* C12: a store_item right after a store_item of the same item that returned leaves the
\* tree as that first call left it; and a store_item right after an add_job or a status
\* change of the item returns, unless a store operation fails, with the item's job keys,
\* statuses and adapters persisted.
C12_StoreItemIdempotent ==
    [][/\ Follows({"store_item"}) => zk' = zk
       /\ (Follows({"add_job", "set_status"}) /\ last'.fault = NoFault)
            => /\ last'.result = "ok"
               /\ ItemCongruent(zk', ODGet(items', last'.id))]_vars

\* two calls of store_item in a row on an item that has a job, both returned
C12_Witness ==
    /\ last.op = "store_item" /\ last.result = "ok"
    /\ prev.op = "store_item" /\ prev.result = "ok" /\ prev.id = last.id
    /\ job_keys(ODGet(items, last.id)) # <<>>

(***************************************************************************)
(* C13  Persist/recover round trip.                                        *)
(***************************************************************************)
IsStr(data) == Len(data) = 2 /\ data[1] = "str"

\* the inverses of the dumps: the string, the list a node's data stands for
LoadsStr(data) == data[2]

LoadsList(data) == Tail(data)

HasStr(tree, path) == path \in DOMAIN tree /\ IsStr(tree[path])

\* a recovery read of an item finds every node it asks for
Readable(tree, id) ==
    /\ HasStr(tree, MessagePath(id))
    /\ JobsPath(id) \in DOMAIN tree /\ IsList(tree[JobsPath(id)])
    /\ \A k \in Range(LoadsList(tree[JobsPath(id)])) :
         HasStr(tree, StatusPath(id, k)) /\ HasStr(tree, AdapterPath(id, k))

\* the recovery read: the message, the job-key list, then status and adapter of each listed job
Recovered(tree, id) ==
    LET keys == LoadsList(tree[JobsPath(id)])
    IN  [message  |-> LoadsStr(tree[MessagePath(id)]),
         job_keys |-> keys,
         jobs     |-> [k \in Range(keys) |->
                         [status  |-> LoadsStr(tree[StatusPath(id, k)]),
                          adapter |-> LoadsStr(tree[AdapterPath(id, k)])]]]

RemoveOfNonMember ==
    last'.op = "remove_item" /\ calls' = calls + 1 /\ ~ODHas(items, last'.id)

\* C14 as stated: remove_item of an item whose id is not in the queue fails an assertion and
\* leaves the mapping and the tree as they were.
C14_NonMemberAssertion ==
    [][RemoveOfNonMember
        => last'.result = "AssertionError" /\ items' = items /\ zk' = zk]_vars

\* C14: remove_item of an item whose id is not in the queue raises, AssertionError where
\* asserts run and KeyError where they are compiled out, and leaves the mapping and the tree
\* as they were.
C14_NonMemberRejected ==
    [][RemoveOfNonMember
        => /\ last'.result = (IF debug THEN "AssertionError" ELSE "KeyError")
           /\ items' = items /\ zk' = zk]_vars

\* remove_item of an id the queue does not hold was rejected while the queue holds another
\* item, stored and indexed
C14_Witness ==
    /\ last.op = "remove_item" /\ last.result = "KeyError"
    /\ ~ODHas(items, last.id)
    /\ items # <<>> /\ Congruent(zk, items)

(***************************************************************************)
(* C15  Index congruence.                                                  *)
(***************************************************************************)
\* the list the index node holds; no list is read as the empty one
IndexRead(tree) ==
    IF zk_base_path \in DOMAIN tree /\ IsList(tree[zk_base_path])
    THEN LoadsList(tree[zk_base_path])
    ELSE <<>>

\* C15: after add_event, store_item or store_list returned, the index node holds a list and
\* the list is item_keys(), same ids in the same order; after add_event(E) returned with E
\* the only item of the queue, the index is [E] and the node /events/E/jobs holds the
\* empty list.
C15_IndexCongruence ==
    /\ (last.op \in {"add_event", "store_item", "store_list"} /\ last.result = "ok")
          => /\ zk_base_path \in DOMAIN zk /\ IsList(zk[zk_base_path])
             /\ IndexRead(zk) = item_keys(items)
    /\ (last.op = "add_event" /\ last.result = "ok" /\ Len(items) = 1)
          => /\ IndexRead(zk) = <<last.id>>
             /\ Holds(zk, JobsPath(last.id), DumpsList(<<>>))

\* store_list returned with two items in the queue, after an earlier call raised
C15_Witness ==
    /\ last.op = "store_list" /\ last.result = "ok"
    /\ Len(items) = 2 /\ ~regular
    /\ IndexRead(zk) = item_keys(items)

(***************************************************************************)
(* C16  Order of steps in remove_item.                                     *)
(***************************************************************************)
\* the store operations of remove_item(id) in the order claimed: the recursive delete of the
\* item's subtree, then the index written from the mapping without the item
RemoveSteps(its, id) ==
    <<DeleteOp(ItemPath(id)), SetOp(zk_base_path, DumpsList(item_keys(ODDel(its, id))))>>

\* C16: remove_item of an item of the queue takes the item out of the mapping, then attempts
\* the recursive delete of its subtree, then, the delete done, the write of the index; when
\* the delete fails the call fails with its error, the item is out of the mapping and the
\* tree, index included, is as before the call.
C16_RemoveItemSteps ==
    [][(last'.op = "remove_item" /\ calls' = calls + 1 /\ ODHas(items, last'.id))
        => /\ ~ODHas(items', last'.id)
           /\ last'.attempted # <<>>
           /\ last'.attempted =
                 SubSeq(RemoveSteps(items, last'.id), 1, Len(last'.attempted))
           /\ Len(last'.attempted) = 1 <=> last'.fault.at = 1
           /\ last'.fault.at = 1 => last'.result = last'.fault.kind /\ zk' = zk]_vars

(***************************************************************************)
(* C17  Store errors are neither swallowed nor retried.                    *)
(***************************************************************************)
StoringCalls == {"add_event", "store_item", "store_list", "remove_item"}

\* C17: when a store operation of add_event, store_item, store_list or remove_item fails, the
\* call raises that operation's error; the failed operation is the last one attempted and was
\* attempted once; the tree is the tree before the call with the operations before the failed
\* one applied and nothing else; and the index node is as before the call.
C17_StoreErrorsPropagate ==
    [][(last'.op \in StoringCalls /\ calls' = calls + 1 /\ last'.fault.at > 0)
        => /\ last'.result = last'.fault.kind
           /\ Len(last'.attempted) = last'.fault.at
           /\ \A n \in 1..(last'.fault.at - 1) :
                 last'.attempted[n] # last'.attempted[last'.fault.at]
           /\ zk' = ApplyOps(zk, last'.attempted, last'.fault.at - 1)
           /\ zk'[zk_base_path] = zk[zk_base_path]]_vars

\* store_item failed at the write of its job's adapter, with an item of the queue
\* missing from the index
C17_Witness ==
    /\ last.op = "store_item" /\ last.result = "ZooKeeperError"
    /\ last.fault.at = 5 /\ Len(last.attempted) = 5
    /\ IndexRead(zk) # item_keys(items)

(***************************************************************************)
(* C18  store_list writes the index only.                                  *)
(***************************************************************************)
\* C18: store_list(), whether it returns or fails, leaves the mapping, and with it every
\* item's jobs, as it was, and leaves the set of nodes of the tree and the data of every
\* node other than the index node as they were.
C18_StoreListFrame ==
    [][(last'.op = "store_list" /\ calls' = calls + 1)
        => /\ items' = items
           /\ DOMAIN zk' = DOMAIN zk
           /\ \A p \in DOMAIN zk : p # zk_base_path => zk'[p] = zk[p]]_vars

\* store_list returned after an earlier call raised, with an item whose job is stored
C18_Witness ==
    /\ last.op = "store_list" /\ last.result = "ok"
    /\ ~regular
    /\ \E e \in EventIds : \E k \in JobIds :
          ODHas(items, e) /\ StatusPath(e, k) \in DOMAIN zk

(***************************************************************************)
(* C19  Indexed events are recoverable.                                    *)
(***************************************************************************)
\* C19: in every reachable state every event id the index lists has a message node holding
\* a string and a job-key node holding a list under /events/<id>.
C19_IndexedRecoverable ==
    \A e \in IndexListed(zk) :
        /\ HasStr(zk, MessagePath(e))
        /\ JobsPath(e) \in DOMAIN zk /\ IsList(zk[JobsPath(e)])

(***************************************************************************)
(* C20  No stale job records.                                              *)
(***************************************************************************)
\* the job ids that have a node at or below /events/<id>/jobs/<job id>
PersistedJobs(tree, id) == {k \in JobIds : Under(tree, JobPath(id, k)) # {}}

\* C20: after remove_job on an item returned and the store_item of that item that followed
\* returned, the job ids with nodes under /events/<id>/jobs/ are those of job_keys() of the
\* item and no others.
C20_NoStaleJobRecords ==
    (/\ prev.op = "remove_job" /\ prev.result = "ok"
     /\ last.op = "store_item" /\ last.result = "ok" /\ last.id = prev.id)
        => PersistedJobs(zk, last.id) = Range(job_keys(ODGet(items, last.id)))

====
